---- MODULE Spec2Model ----
(***************************************************************************)
(* Model of AutomaticPanoramaStitchingUsingInvariantFeatures.ipynb:        *)
(* descriptor matching and ratio filtering (match_keypoints), canvas       *)
(* geometry (get_warp_perspective), binary-mask compositing (alpha_blend)  *)
(* and the top-level stitching cell.                                       *)
(*                                                                         *)
(* Conventions.  Python sequences are TLA+ sequences; Python index i is    *)
(* element i+1.  Indices stored in data (queryIdx, trainIdx) keep their    *)
(* 0-based Python value.  A descriptor is a 1-dimensional vector, so the   *)
(* L2 distance of the brute-force matcher is an absolute difference.       *)
(* lowe_ratio is the rational <<num, den>>.  A homography is a 3x3 integer *)
(* matrix; perspectiveTransform divides by the third coordinate, so the    *)
(* common scale of the entries is immaterial and fractional transforms     *)
(* are integer matrices with h[3][3] > 1.  Real coordinates are exact      *)
(* rationals [n, d] with d > 0.                                            *)
(***************************************************************************)
EXTENDS Integers, Sequences, FiniteSets, TLC

VARIABLES
    m_pc, m_in, m_out,      \* one call of match_keypoints
    w_pc, w_in, w_out,      \* one call of get_warp_perspective
    b_pc, b_in, b_out,      \* one call of alpha_blend
    \* the top-level cell
    pc,             \* "extract", "pairwise", "merge", "done", "crashed"
    images,         \* the input images, each [shape |-> <<rows, cols>>]
    keypoints,      \* keypoints[k], features[k]: sift_features(images[k])
    features,
    homographies,   \* the dict, as its items in insertion order
    homography,     \* the variable homography
    i, j,           \* the loop variables
    panorama,       \* the variable panorama
    written,        \* what cv2.imwrite wrote to panorama.jpg
    failure,        \* the exception that ended the cell
    warpLog         \* history: the calls of get_warp_perspective

matchVars == <<m_pc, m_in, m_out>>

warpVars == <<w_pc, w_in, w_out>>

blendVars == <<b_pc, b_in, b_out>>

pipeVars == <<pc, images, keypoints, features, homographies, homography,
              i, j, panorama, written, failure, warpLog>>

vars == <<m_pc, m_in, m_out, w_pc, w_in, w_out, b_pc, b_in, b_out,
          pc, images, keypoints, features, homographies, homography,
          i, j, panorama, written, failure, warpLog>>

\* the variables of a part that a specification does not run
MatchIdle == m_pc = "idle" /\ m_in = <<>> /\ m_out = <<>>

WarpIdle == w_pc = "idle" /\ w_in = <<>> /\ w_out = <<>>

BlendIdle == b_pc = "idle" /\ b_in = <<>> /\ b_out = <<>>

PipeIdle ==
    /\ pc = "idle" /\ images = <<>> /\ keypoints = <<>> /\ features = <<>>
    /\ homographies = <<>> /\ homography = <<>> /\ i = 0 /\ j = 0
    /\ panorama = <<>> /\ written = <<>> /\ failure = <<>> /\ warpLog = <<>>

\* Python's None, the "no transform" value (the empty tuple, which no 3x3
\* matrix equals).
None == <<>>

\* The exception cv2 raises on arguments it rejects.
Cv2Error == "cv2.error"

Min(a, b) == IF a <= b THEN a ELSE b

Max(a, b) == IF a >= b THEN a ELSE b

(***************************************************************************)
(* Bounds of the matching model.                                           *)
(***************************************************************************)
MaxQuery == 5

MaxTrain == 2

QueryDescriptors == {1, 3}

TrainDescriptors == {0, 7}

Ratios == {<<1, 2>>, <<3, 4>>}

\* lowe_ratio = 0.75
lowe_ratio == <<3, 4>>

SeqsUpTo(S, n) == UNION {[1..k -> S] : k \in 0..n}

(***************************************************************************)
(* all_possible_matches: BruteForce knnMatch(features1, features2, 2).     *)
(***************************************************************************)
Distance(a, b) == IF a >= b THEN a - b ELSE b - a

\* train descriptor u is ranked before t for query descriptor qd
Closer(qd, features2, u, t) ==
    \/ Distance(qd, features2[u]) < Distance(qd, features2[t])
    \/ Distance(qd, features2[u]) = Distance(qd, features2[t]) /\ u < t

Rank(qd, features2, t) ==
    Cardinality({u \in 1..Len(features2) : Closer(qd, features2, u, t)})

\* the k nearest train descriptors of query q, ascending by distance
KnnRow(q, features1, features2, k) ==
    [r \in 1..Min(k, Len(features2)) |->
        LET t == CHOOSE u \in 1..Len(features2) :
                    Rank(features1[q], features2, u) = r - 1
        IN [queryIdx |-> q - 1, trainIdx |-> t - 1,
            distance |-> Distance(features1[q], features2[t])]]

\* DescriptorMatcher.knnMatch: nothing to match for an empty query set; an
\* empty train set (None) against a non-empty query set fails the matcher's
\* descriptor-type assertion and the call raises cv2.error.
knnMatchRaises(features1, features2) ==
    features1 # <<>> /\ features2 = <<>>

knnMatch(features1, features2, k) ==
    [q \in 1..Len(features1) |-> KnnRow(q, features1, features2, k)]

\* the call's outcome: the exception, or the list of candidate rows
all_possible_matches(features1, features2) ==
    IF knnMatchRaises(features1, features2)
    THEN [raised |-> TRUE, all_matches |-> <<>>]
    ELSE [raised |-> FALSE, all_matches |-> knnMatch(features1, features2, 2)]

(***************************************************************************)
(* all_valid_matches: Lowe's ratio test.                                   *)
(***************************************************************************)
RatioTestLax(val, ratio) ==
    Len(val) = 2 /\ val[1].distance * ratio[2] <= val[2].distance * ratio[1]

\* len(val) == 2 and val[0].distance < val[1].distance * lowe_ratio
RatioTest(val, ratio) ==
    Len(val) = 2 /\ val[1].distance * ratio[2] < val[2].distance * ratio[1]

RECURSIVE all_valid_matches(_, _)
all_valid_matches(all_matches, ratio) ==
    IF all_matches = <<>> THEN <<>>
    ELSE LET val == Head(all_matches) IN
         (IF RatioTest(val, ratio)
              THEN << <<val[1].trainIdx, val[1].queryIdx>> >>
              ELSE <<>>)
         \o all_valid_matches(Tail(all_matches), ratio)

(***************************************************************************)
(* compute_homography: cv2.findHomography with RANSAC.  The estimate is    *)
(* the library's, and random: any matrix of EstimatorResults, or None when *)
(* no model is found.                                                      *)
(***************************************************************************)
Identity3 == << <<1, 0, 0>>, <<0, 1, 0>>, <<0, 0, 1>> >>

\* translation by (tx/d, ty/d)
Translation(tx, ty, d) == << <<d, 0, tx>>, <<0, d, ty>>, <<0, 0, d>> >>

EstimatorResults == {None, Translation(5, 0, 4), Translation(-6, 3, 4)}

compute_homography(points1, points2) == EstimatorResults

(***************************************************************************)
(* match_keypoints: the set of possible outcomes of one call.  Each        *)
(* outcome records what was returned (ret), whether an exception left the  *)
(* function (raised), the intermediate lists, and the estimator calls.     *)
(***************************************************************************)
match_keypoints(keypoints1, keypoints2, features1, features2, ratio) ==
    LET matcher == all_possible_matches(features1, features2)
        all_matches == matcher.all_matches
    IN
    IF matcher.raised
    THEN {[raised |-> TRUE, ret |-> None, all_matches |-> <<>>,
           valid_matches |-> <<>>, estimator |-> <<>>]}
    ELSE
    LET valid_matches == all_valid_matches(all_matches, ratio) IN
    IF Len(valid_matches) > 4
    THEN LET points1 == [n \in 1..Len(valid_matches) |->
                            keypoints1[valid_matches[n][2] + 1]]
             points2 == [n \in 1..Len(valid_matches) |->
                            keypoints2[valid_matches[n][1] + 1]]
         IN {[raised |-> FALSE, ret |-> estimate,
              all_matches |-> all_matches, valid_matches |-> valid_matches,
              estimator |-> << <<points1, points2>> >>] :
                 estimate \in compute_homography(points1, points2)}
    ELSE {[raised |-> FALSE, ret |-> None, all_matches |-> all_matches,
           valid_matches |-> valid_matches, estimator |-> <<>>]}

\* keypoint coordinates of a descriptor list: one point per descriptor
KeypointsOf(descs) == [n \in 1..Len(descs) |-> <<n - 1, descs[n]>>]

NoCall == [raised |-> FALSE, ret |-> None, all_matches |-> <<>>,
           valid_matches |-> <<>>, estimator |-> <<>>]

MatchInit ==
    /\ m_pc = "call"
    /\ \E features1 \in SeqsUpTo(QueryDescriptors, MaxQuery),
          features2 \in SeqsUpTo(TrainDescriptors, MaxTrain),
          ratio \in Ratios :
          m_in = [keypoints1 |-> KeypointsOf(features1),
                  keypoints2 |-> KeypointsOf(features2),
                  features1 |-> features1, features2 |-> features2,
                  lowe_ratio |-> ratio]
    /\ m_out = NoCall
    /\ WarpIdle /\ BlendIdle /\ PipeIdle

MatchKeypoints ==
    /\ m_pc = "call"
    /\ \E o \in match_keypoints(m_in.keypoints1, m_in.keypoints2,
                                m_in.features1, m_in.features2,
                                m_in.lowe_ratio) :
          /\ m_out' = o
          /\ m_pc' = IF o.raised THEN "raised" ELSE "returned"
    /\ UNCHANGED <<m_in, warpVars, blendVars, pipeVars>>

SpecMatch == MatchInit /\ [][MatchKeypoints]_vars

(***************************************************************************)
(* get_warp_perspective: canvas geometry.                                  *)
(***************************************************************************)
MaxDim == 2

HMax == 5

Rat(n, d) == [n |-> n, d |-> d]

RatLess(a, b) == a.n * b.d < b.n * a.d

\* cv2.perspectiveTransform of the point (x, y): (X/W, Y/W), and (0, 0)
\* where the third coordinate W vanishes
perspectiveTransform(pt, h) ==
    LET X == h[1][1] * pt[1] + h[1][2] * pt[2] + h[1][3]
        Y == h[2][1] * pt[1] + h[2][2] * pt[2] + h[2][3]
        W == h[3][1] * pt[1] + h[3][2] * pt[2] + h[3][3]
    IN IF W = 0 THEN <<Rat(0, 1), Rat(0, 1)>>
       ELSE IF W > 0 THEN <<Rat(X, W), Rat(Y, W)>>
       ELSE <<Rat(-X, -W), Rat(-Y, -W)>>

\* [[0, 0], [0, rows], [cols, rows], [cols, 0]]
Corners(rows, cols) == << <<0, 0>>, <<0, rows>>, <<cols, rows>>, <<cols, 0>> >>

\* list_pts.min(axis = 0) and list_pts.max(axis = 0), one axis at a time
AxisMin(list_pts, axis) ==
    LET m == CHOOSE n \in 1..Len(list_pts) :
                \A k \in 1..Len(list_pts) :
                    ~RatLess(list_pts[k][axis], list_pts[n][axis])
    IN list_pts[m][axis]

AxisMax(list_pts, axis) ==
    LET m == CHOOSE n \in 1..Len(list_pts) :
                \A k \in 1..Len(list_pts) :
                    ~RatLess(list_pts[n][axis], list_pts[k][axis])
    IN list_pts[m][axis]

\* np.int32 of a float: the fraction is dropped (rounding toward zero)
NpInt32(r) == IF r.n >= 0 THEN r.n \div r.d ELSE -((-r.n) \div r.d)

SubHalf(r) == Rat(2 * r.n - r.d, 2 * r.d)

AddHalf(r) == Rat(2 * r.n + r.d, 2 * r.d)

\* a Python slice bound on an axis of length n
SliceBound(b, n) == IF b < 0 THEN Max(b + n, 0) ELSE Min(b, n)

\* the length of img[start : stop] along an axis of length n
SliceLen(start, stop, n) ==
    Max(0, SliceBound(stop, n) - SliceBound(start, n))

\* alpha_blend: the shape of roi = img1[dy : t_row + dy, dx : dx + t_col]
RoiShape(img1_shape, img2_shape, translation_dist) ==
    <<SliceLen(translation_dist[2], img2_shape[1] + translation_dist[2],
               img1_shape[1]),
      SliceLen(translation_dist[1], translation_dist[1] + img2_shape[2],
               img1_shape[2])>>

\* [x_min, y_min] = np.int32(list_pts.min(axis = 0).ravel() - 0.5)
XMin(list_pts) == NpInt32(SubHalf(AxisMin(list_pts, 1)))

YMin(list_pts) == NpInt32(SubHalf(AxisMin(list_pts, 2)))

XMaxRoundedDown(list_pts) == NpInt32(SubHalf(AxisMax(list_pts, 1)))

\* [x_max, y_max] = np.int32(list_pts.max(axis = 0).ravel() + 0.5)
XMax(list_pts) == NpInt32(AddHalf(AxisMax(list_pts, 1)))

YMax(list_pts) == NpInt32(AddHalf(AxisMax(list_pts, 2)))

NoWarp == [raised |-> FALSE, list_pts |-> <<>>, translation_dist |-> <<0, 0>>,
           shape |-> <<0, 0>>, roi_shape |-> <<0, 0>>]

\* The outcome of get_warp_perspective on images of the given shapes
\* (<<rows, cols>>): the 8 corners, the translation, the shape of the
\* returned canvas and of the region alpha_blend slices out of it.  The call
\* raises when perspectiveTransform is handed None, and when the region and
\* the reference image differ in shape (the masked operations reject it).
get_warp_perspective(train_shape, query_shape, hom) ==
    IF hom = None
    THEN [NoWarp EXCEPT !.raised = TRUE]
    ELSE
    LET t_row == train_shape[1]
        t_col == train_shape[2]
        q_row == query_shape[1]
        q_col == query_shape[2]
        list_pts1 == [n \in 1..4 |->
                         <<Rat(Corners(t_row, t_col)[n][1], 1),
                           Rat(Corners(t_row, t_col)[n][2], 1)>>]
        temp_points == Corners(q_row, q_col)
        list_pts2 == [n \in 1..4 |->
                         perspectiveTransform(temp_points[n], hom)]
        list_pts == list_pts1 \o list_pts2
        x_min == XMin(list_pts)
        y_min == YMin(list_pts)
        x_max == XMax(list_pts)
        y_max == YMax(list_pts)
        translation_dist == <<-x_min, -y_min>>
        warped_shape == <<y_max - y_min, x_max - x_min>>
        roi_shape == RoiShape(warped_shape, train_shape, translation_dist)
    IN [raised |-> roi_shape # train_shape,
        list_pts |-> list_pts,
        translation_dist |-> translation_dist,
        shape |-> warped_shape,
        roi_shape |-> roi_shape]

Shapes == (1..MaxDim) \X (1..MaxDim)

\* scalings, shears, translations by quarters of a pixel, and perspective
\* rows whose third coordinate is positive, zero or negative at a corner
Homographies ==
    {<< <<a, b, tx>>, <<0, a, ty>>, <<g, 0, 4>> >> :
        a \in {2, 4, 6}, b \in {0, 1},
        tx \in (-HMax)..HMax, ty \in (-HMax)..HMax, g \in {-2, 0, 1}}

WarpInit ==
    /\ w_pc = "call"
    /\ \E train_shape \in Shapes, query_shape \in Shapes,
          hom \in Homographies \cup {None} :
          w_in = [train_shape |-> train_shape, query_shape |-> query_shape,
                  homography |-> hom]
    /\ w_out = NoWarp
    /\ MatchIdle /\ BlendIdle /\ PipeIdle

GetWarpPerspective ==
    /\ w_pc = "call"
    /\ w_out' = get_warp_perspective(w_in.train_shape, w_in.query_shape,
                                     w_in.homography)
    /\ w_pc' = IF w_out'.raised THEN "raised" ELSE "returned"
    /\ UNCHANGED <<w_in, matchVars, blendVars, pipeVars>>

SpecWarp == WarpInit /\ [][GetWarpPerspective]_vars

(***************************************************************************)
(* alpha_blend: binary-mask compositing.  An image is a sequence of rows   *)
(* of BGR pixels.                                                          *)
(***************************************************************************)
MaxPixels == 4

Black == <<0, 0, 0>>

ShapeOf(img) == <<Len(img), Len(img[1])>>

\* cv2.cvtColor(img, COLOR_BGR2GRAY) on an 8-bit pixel: the fixed-point
\* weighted sum 0.114 B + 0.587 G + 0.299 R, rounded
cvtColorGray(px) ==
    (px[1] * 1868 + px[2] * 9617 + px[3] * 4899 + 8192) \div 16384

thresholdInclusive(v, thresh, maxval) == IF v >= thresh THEN maxval ELSE 0

\* cv2.threshold(src, thresh, maxval, THRESH_BINARY) on one value
threshold(v, thresh, maxval) == IF v > thresh THEN maxval ELSE 0

\* cv2.bitwise_not on an 8-bit value
bitwise_not(v) == 255 - v

\* cv2.bitwise_and(src, src, mask = m) on one pixel: src AND src where the
\* mask is set, 0 elsewhere
bitwise_and_self(src, m) == IF m # 0 THEN src ELSE Black

\* cv2.add on one pixel: the saturated sum of each channel
add(p, q) == [ch \in 1..3 |-> Min(p[ch] + q[ch], 255)]

\* The canvas alpha_blend returns (img1, written in place).  The region at
\* the offset has img2's shape: get_warp_perspective, the only caller,
\* passes no other offset (C10).
alpha_blend(img1, img2, translation_dist) ==
    LET t_row == Len(img2)
        t_col == Len(img2[1])
        dx == translation_dist[1]
        dy == translation_dist[2]
        roi == [r \in 1..t_row |-> [c \in 1..t_col |-> img1[r + dy][c + dx]]]
        img2gray == [r \in 1..t_row |-> [c \in 1..t_col |->
                        cvtColorGray(img2[r][c])]]
        mask == [r \in 1..t_row |-> [c \in 1..t_col |->
                        threshold(img2gray[r][c], 10, 255)]]
        mask_inv == [r \in 1..t_row |-> [c \in 1..t_col |->
                        bitwise_not(mask[r][c])]]
        img1_bg == [r \in 1..t_row |-> [c \in 1..t_col |->
                        bitwise_and_self(roi[r][c], mask_inv[r][c])]]
        img2_fg == [r \in 1..t_row |-> [c \in 1..t_col |->
                        bitwise_and_self(img2[r][c], mask[r][c])]]
        dst == [r \in 1..t_row |-> [c \in 1..t_col |->
                        add(img1_bg[r][c], img2_fg[r][c])]]
    IN [r \in 1..Len(img1) |-> [c \in 1..Len(img1[1]) |->
           IF /\ r - dy \in 1..t_row
              /\ c - dx \in 1..t_col
           THEN dst[r - dy][c - dx]
           ELSE img1[r][c]]]

\* pixels of the warped canvas: background and content
CanvasPixels == {Black, <<7, 8, 9>>}

\* pixels of the reference image: black, gray 10, gray 11, and a dark blue
\* whose gray value is 5
ImagePixels == {Black, <<10, 10, 10>>, <<11, 11, 11>>, <<40, 0, 0>>}

BlendShapes ==
    {sh \in (1..MaxPixels) \X (1..MaxPixels) : sh[1] * sh[2] <= MaxPixels}

ImagesOf(sh, P) == [1..sh[1] -> [1..sh[2] -> P]]

BlendInit ==
    /\ b_pc = "call"
    /\ \E sh1 \in BlendShapes, sh2 \in BlendShapes :
          /\ sh2[1] <= sh1[1] /\ sh2[2] <= sh1[2]
          /\ \E img1 \in ImagesOf(sh1, CanvasPixels),
                img2 \in ImagesOf(sh2, ImagePixels),
                dx \in 0..(sh1[2] - sh2[2]), dy \in 0..(sh1[1] - sh2[1]) :
                b_in = [img1 |-> img1, img2 |-> img2,
                        translation_dist |-> <<dx, dy>>]
    /\ b_out = <<>>
    /\ MatchIdle /\ WarpIdle /\ PipeIdle

AlphaBlend ==
    /\ b_pc = "call"
    /\ b_out' = [img1 |-> alpha_blend(b_in.img1, b_in.img2,
                                      b_in.translation_dist),
                 img2 |-> b_in.img2]
    /\ b_pc' = "returned"
    /\ UNCHANGED <<b_in, matchVars, warpVars, pipeVars>>

SpecBlend == BlendInit /\ [][AlphaBlend]_vars

(***************************************************************************)
(* The top-level cell: feature extraction, pairwise homographies, the      *)
(* merge loop and the final imwrite.                                       *)
(***************************************************************************)
\* the cell loads 4 images; the model runs it on 2 up to that many
NumImages == 4

\* feature sets sift_features can return: no keypoint, one, four and five
FeatureSets == {[n \in 1..k |-> 10 * (n - 1)] : k \in {0, 1, 4, 5}}

ImageShapes == {<<1, 2>>, <<2, 2>>}

\* where a homography value came from: match_keypoints on the image pair
\* (a, b), or on image b and the panorama of a merges
PairOrigin(a, b) == [kind |-> "pair", a |-> a, b |-> b]

PanoramaOrigin(a, b) == [kind |-> "panorama", a |-> a, b |-> b]

NoOrigin == [kind |-> "none", a |-> 0, b |-> 0]

NoFailure == [stage |-> "none", error |-> "none", step |-> 0]

NoPanorama == [shape |-> <<0, 0>>, version |-> 0]

\* homographies[key]
Lookup(dict, key) ==
    dict[CHOOSE n \in 1..Len(dict) : dict[n].key = key].h

\* the pairs (a, b), a < b, after (a, b) in the nested loops over range(n)
NextPair(a, b, n) ==
    IF b + 1 < n THEN <<a, b + 1>> ELSE <<a + 1, a + 2>>

PipeInit ==
    /\ pc = "extract"
    /\ \E n \in 2..NumImages :
          images \in [1..n -> [shape : ImageShapes]]
    /\ keypoints = <<>>
    /\ features = <<>>
    /\ homographies = <<>>
    /\ homography = [val |-> None, origin |-> NoOrigin]
    /\ i = 0
    /\ j = 0
    /\ panorama = NoPanorama
    /\ written = None
    /\ failure = NoFailure
    /\ warpLog = <<>>
    /\ MatchIdle /\ WarpIdle /\ BlendIdle

\* one iteration of "for image in images": sift_features(image); after the
\* last one, the pairwise loops start at (0, 1)
ExtractFeatures ==
    /\ pc = "extract"
    /\ \E feature \in FeatureSets :
          /\ keypoints' = Append(keypoints, KeypointsOf(feature))
          /\ features' = Append(features, feature)
    /\ IF Len(features) + 1 = Len(images)
       THEN pc' = "pairwise" /\ i' = 0 /\ j' = 1
       ELSE UNCHANGED <<pc, i, j>>
    /\ UNCHANGED <<images, homographies, homography, panorama, written,
                   failure, warpLog, matchVars, warpVars, blendVars>>

\* one iteration of the nested loops: homographies[(i, j)] =
\* match_keypoints(keypoints[j], keypoints[i], features[j], features[i], ..)
PairwiseHomography ==
    /\ pc = "pairwise"
    /\ i < Len(images) /\ j < Len(images)
    /\ \E o \in match_keypoints(keypoints[j + 1], keypoints[i + 1],
                                features[j + 1], features[i + 1],
                                lowe_ratio) :
          IF o.raised
          THEN /\ pc' = "crashed"
               /\ failure' = [stage |-> "pairwise", error |-> Cv2Error,
                              step |-> i]
               /\ UNCHANGED <<homographies, homography, i, j>>
          ELSE /\ homography' = [val |-> o.ret, origin |-> PairOrigin(i, j)]
               /\ homographies' = Append(homographies,
                                         [key |-> <<i, j>>,
                                          h |-> homography'])
               /\ i' = NextPair(i, j, Len(images))[1]
               /\ j' = NextPair(i, j, Len(images))[2]
               /\ UNCHANGED <<pc, failure>>
    /\ UNCHANGED <<images, keypoints, features, panorama, written, warpLog,
                   matchVars, warpVars, blendVars>>

\* homography = np.identity(3); ind = True; the merge loop starts
StartMerging ==
    /\ pc = "pairwise"
    /\ ~(i < Len(images) /\ j < Len(images))
    /\ homography' = [val |-> Identity3, origin |-> NoOrigin]
    /\ i' = 0
    /\ pc' = "merge"
    /\ UNCHANGED <<images, keypoints, features, homographies, j, panorama,
                   written, failure, warpLog, matchVars, warpVars, blendVars>>

MergeHomographyStale(step, precomputed, fresh) == precomputed

\* the homography a merge step hands to get_warp_perspective: the
\* precomputed one at step 0, the freshly estimated one afterwards
MergeHomography(step, precomputed, fresh) ==
    IF step = 0 THEN precomputed ELSE fresh

PanoramaKept(old, w) == old

\* panorama = get_warp_perspective(...)
PanoramaAfter(old, w) == [shape |-> w.shape, version |-> old.version + 1]

\* the call get_warp_perspective(train, images[step + 1], h.val) of a merge
\* step and what became of it
WarpCall(step, train, train_shape, h, w) ==
    [step |-> step, train |-> train, train_shape |-> train_shape,
     query |-> step + 1, homography |-> h.val, origin |-> h.origin,
     raised |-> w.raised, shape |-> w.shape]

\* iteration i = 0 of the merge loop
MergeFirst ==
    /\ pc = "merge"
    /\ i = 0 /\ i < Len(images) - 1
    /\ LET h == MergeHomography(i, Lookup(homographies, <<i, i + 1>>),
                                homography)
           w == get_warp_perspective(images[i + 1].shape,
                                     images[i + 2].shape, h.val)
       IN /\ homography' = Lookup(homographies, <<i, i + 1>>)
          /\ warpLog' = Append(warpLog,
                               WarpCall(i, [kind |-> "image", n |-> i],
                                        images[i + 1].shape, h, w))
          /\ IF w.raised
             THEN /\ pc' = "crashed"
                  /\ failure' = [stage |-> "merge", error |-> Cv2Error,
                                 step |-> i]
                  /\ UNCHANGED <<panorama, i>>
             ELSE /\ panorama' = PanoramaAfter(panorama, w)
                  /\ i' = i + 1
                  /\ UNCHANGED <<pc, failure>>
    /\ UNCHANGED <<images, keypoints, features, homographies, j, written,
                   matchVars, warpVars, blendVars>>

\* iteration i >= 1 of the merge loop: features of the panorama, a fresh
\* homography, the warp
MergeNext ==
    /\ pc = "merge"
    /\ i >= 1 /\ i < Len(images) - 1
    /\ \E features_p \in FeatureSets :
       \E o \in match_keypoints(keypoints[i + 2], KeypointsOf(features_p),
                                features[i + 2], features_p, lowe_ratio) :
          IF o.raised
          THEN /\ homography' = Lookup(homographies, <<i, i + 1>>)
               /\ pc' = "crashed"
               /\ failure' = [stage |-> "merge", error |-> Cv2Error,
                              step |-> i]
               /\ UNCHANGED <<panorama, i, warpLog>>
          ELSE
          LET fresh == [val |-> o.ret,
                        origin |-> PanoramaOrigin(panorama.version, i + 1)]
              h == MergeHomography(i, Lookup(homographies, <<i, i + 1>>),
                                   fresh)
              w == get_warp_perspective(panorama.shape, images[i + 2].shape,
                                        h.val)
          IN /\ homography' = fresh
             /\ warpLog' = Append(warpLog,
                                  WarpCall(i, [kind |-> "panorama",
                                               n |-> panorama.version],
                                           panorama.shape, h, w))
             /\ IF w.raised
                THEN /\ pc' = "crashed"
                     /\ failure' = [stage |-> "merge", error |-> Cv2Error,
                                    step |-> i]
                     /\ UNCHANGED <<panorama, i>>
                ELSE /\ panorama' = PanoramaAfter(panorama, w)
                     /\ i' = i + 1
                     /\ UNCHANGED <<pc, failure>>
    /\ UNCHANGED <<images, keypoints, features, homographies, j, written,
                   matchVars, warpVars, blendVars>>

\* cv2.imwrite("panorama.jpg", panorama)
WritePanorama ==
    /\ pc = "merge"
    /\ ~(i < Len(images) - 1)
    /\ written' = panorama
    /\ pc' = "done"
    /\ UNCHANGED <<images, keypoints, features, homographies, homography,
                   i, j, panorama, failure, warpLog,
                   matchVars, warpVars, blendVars>>

Next ==
    \/ ExtractFeatures
    \/ PairwiseHomography
    \/ StartMerging
    \/ MergeFirst
    \/ MergeNext
    \/ WritePanorama

Spec == PipeInit /\ [][Next]_vars

(***************************************************************************)
(* Claims about matching.                                                  *)
(***************************************************************************)
Accepted(am, ratio) ==
    {q \in 1..Len(am) :
        /\ Len(am[q]) = 2
        /\ am[q][1].distance * ratio[2] < am[q][2].distance * ratio[1]}

\* C2: all_valid_matches accepts a query exactly when it has 2 candidates and
\* distance(best) < lowe_ratio * distance(secondBest), strictly; each accepted
\* query contributes exactly the pair (trainIdx of best, queryIdx), and no
\* query index occurs twice in the output.
C2_RatioFilter ==
    m_pc = "returned" =>
        LET am == m_out.all_matches
            vm == m_out.valid_matches
            acc == Accepted(am, m_in.lowe_ratio)
        IN /\ {vm[n] : n \in 1..Len(vm)} =
                  {<<am[q][1].trainIdx, q - 1>> : q \in acc}
           /\ Len(vm) = Cardinality(acc)
           /\ \A a, b \in 1..Len(vm) : a # b => vm[a][2] # vm[b][2]

\* a call whose matcher output holds a boundary query (d1 = r * d2), an
\* accepted query and hence a non-empty output
C2_Witness ==
    /\ m_pc = "returned"
    /\ \E q \in 1..Len(m_out.all_matches) :
          LET val == m_out.all_matches[q] IN
          /\ Len(val) = 2
          /\ val[1].distance * m_in.lowe_ratio[2] =
                 val[2].distance * m_in.lowe_ratio[1]
    /\ Len(m_out.valid_matches) >= 1

\* C3: match_keypoints returns None without calling the estimator exactly
\* when fewer than 4 correspondences survive the filter, and calls
\* compute_homography and returns its result for 4 or more.
C3_FourIsEnough ==
    m_pc = "returned" =>
        /\ (m_out.estimator = <<>>) <=> (Len(m_out.valid_matches) < 4)
        /\ m_out.estimator = <<>> => m_out.ret = None

\* C7: with an empty query or reference feature set, or a reference set of
\* fewer than 2 descriptors, match_keypoints returns None as an ordinary
\* result with fewer than 4 correspondences, and nothing raises.
C7_EmptyFeatureSetIsNoTransform ==
    (/\ m_pc # "call"
     /\ \/ m_in.features1 = <<>>
        \/ Len(m_in.features2) < 2) =>
        /\ m_pc = "returned"
        /\ m_out.ret = None
        /\ Len(m_out.valid_matches) < 4
(***************************************************************************)
(* Claims about the canvas geometry.                                       *)
(***************************************************************************)
\* C4: the canvas covers the bounding box of all 8 corners: after the
\* translation every corner has coordinates >= 0, x <= canvas width and
\* y <= canvas height, also when mapped corners are fractional.
C4_CanvasCoversAllCorners ==
    w_pc = "returned" =>
        \A n \in 1..Len(w_out.list_pts) :
            LET x == w_out.list_pts[n][1]
                y == w_out.list_pts[n][2]
                dx == w_out.translation_dist[1]
                dy == w_out.translation_dist[2]
            IN /\ x.n + dx * x.d >= 0
               /\ y.n + dy * y.d >= 0
               /\ x.n + dx * x.d <= w_out.shape[2] * x.d
               /\ y.n + dy * y.d <= w_out.shape[1] * y.d

\* C10: the translation is non-negative in both axes and the reference
\* image's rectangle at that offset lies inside the warped canvas, so the
\* region alpha_blend slices out has exactly the reference image's shape.
C10_ReferenceRectangleInsideCanvas ==
    w_pc # "call" /\ w_in.homography # None =>
        LET dx == w_out.translation_dist[1]
            dy == w_out.translation_dist[2]
        IN /\ dx >= 0 /\ dy >= 0
           /\ dx + w_in.train_shape[2] <= w_out.shape[2]
           /\ dy + w_in.train_shape[1] <= w_out.shape[1]
           /\ w_out.roi_shape = w_in.train_shape
           /\ w_pc = "returned"

\* a call that shifted the canvas in both axes, for a homography whose
\* mapped corners are not integers
C10_Witness ==
    /\ w_pc = "returned"
    /\ w_out.translation_dist[1] > 0 /\ w_out.translation_dist[2] > 0
    /\ \E n \in 5..8 : w_out.list_pts[n][1].n % w_out.list_pts[n][1].d # 0

(***************************************************************************)
(* Claims about compositing.                                               *)
(***************************************************************************)
\* C8: alpha_blend returns img1 changed only inside the rectangle of img2's
\* size at the offset; there a pixel is img2's when img2's gray value is
\* strictly above 10 and img1's previous pixel otherwise; img2 is unchanged.
C8_BlendFrame ==
    b_pc = "returned" =>
        LET dx == b_in.translation_dist[1]
            dy == b_in.translation_dist[2]
            InRect(r, c) == /\ r - dy \in 1..Len(b_in.img2)
                            /\ c - dx \in 1..Len(b_in.img2[1])
        IN /\ ShapeOf(b_out.img1) = ShapeOf(b_in.img1)
           /\ \A r \in 1..Len(b_in.img1), c \in 1..Len(b_in.img1[1]) :
                 b_out.img1[r][c] =
                     IF InRect(r, c) /\ cvtColorGray(b_in.img2[r - dy][c - dx]) > 10
                     THEN b_in.img2[r - dy][c - dx]
                     ELSE b_in.img1[r][c]
           /\ b_out.img2 = b_in.img2

\* a blend at a non-zero offset in both axes whose image holds a pixel of
\* gray value exactly 10 over canvas content, and a foreground pixel
C8_Witness ==
    /\ b_pc = "returned"
    /\ b_in.translation_dist[1] > 0 /\ b_in.translation_dist[2] > 0
    /\ \E r \in 1..Len(b_in.img2), c \in 1..Len(b_in.img2[1]) :
          /\ cvtColorGray(b_in.img2[r][c]) = 10
          /\ b_in.img1[r + b_in.translation_dist[2]]
                      [c + b_in.translation_dist[1]] # Black
          /\ b_out.img1[r + b_in.translation_dist[2]]
                       [c + b_in.translation_dist[1]] # b_in.img2[r][c]

(***************************************************************************)
(* Claims about the top-level cell.                                        *)
(***************************************************************************)
\* C1: when the homography of a merge step is None the cell stops with an
\* explicit failure before get_warp_perspective runs: the function is never
\* called with None, and nothing is written after such a step.
C1_NoneStopsBeforeWarp ==
    /\ \A n \in 1..Len(warpLog) : warpLog[n].homography # None
    /\ pc = "crashed" /\ failure.stage = "merge" => written = None

\* C5: step 0 warps image 1 into image 0 with homographies[(0, 1)]; step
\* i >= 1 warps image i + 1 into the panorama of step i - 1 with the
\* homography estimated against that panorama; no other precomputed
\* homography reaches get_warp_perspective.
C5_FreshHomographyAfterFirstMerge ==
    \A n \in 1..Len(warpLog) :
        LET call == warpLog[n] IN
        /\ call.step = n - 1
        /\ call.query = n
        /\ IF n = 1
           THEN /\ call.train = [kind |-> "image", n |-> 0]
                /\ call.train_shape = images[1].shape
                /\ call.origin = PairOrigin(0, 1)
                /\ call.homography = Lookup(homographies, <<0, 1>>).val
           ELSE /\ call.train = [kind |-> "panorama", n |-> n - 1]
                /\ call.train_shape = warpLog[n - 1].shape
                /\ call.origin = PanoramaOrigin(n - 1, n)

\* a finished run of three merges whose second merge used a homography
\* other than the precomputed homographies[(1, 2)]
C5_Witness ==
    /\ pc = "done"
    /\ Len(warpLog) = 3
    /\ warpLog[2].homography # Lookup(homographies, <<1, 2>>).val
    /\ Lookup(homographies, <<1, 2>>).val # None

\* C6: all pairwise homographies are computed before the first merge, the
\* merges run in increasing order, one per image 1..N-1, Done is reached
\* only after all N-1 merges, and the cell fails only in a merge step.
C6_StagesInOrder ==
    LET n == Len(images) IN
    /\ (pc \in {"merge", "done"} \/ warpLog # <<>>) =>
           /\ Len(homographies) * 2 = n * (n - 1)
           /\ \A a \in 0..(n - 1), b \in 0..(n - 1) :
                 a < b => \E k \in 1..Len(homographies) :
                              homographies[k].key = <<a, b>>
    /\ \A k \in 1..Len(warpLog) :
           warpLog[k].step = k - 1 /\ warpLog[k].query = k
    /\ pc = "done" =>
           /\ Len(warpLog) = n - 1
           /\ \A k \in 1..Len(warpLog) : ~warpLog[k].raised
    /\ pc = "crashed" => failure.stage = "merge"

\* C9: over successful merges the panorama never shrinks: each new canvas
\* is at least as wide and as high as the reference of that merge, and the
\* variable panorama holds the canvas of the most recent successful merge.
C9_PanoramaNeverShrinks ==
    LET merged == {n \in 1..Len(warpLog) : ~warpLog[n].raised} IN
    /\ \A n \in merged :
          /\ warpLog[n].shape[1] >= warpLog[n].train_shape[1]
          /\ warpLog[n].shape[2] >= warpLog[n].train_shape[2]
    /\ panorama.version = Cardinality(merged)
    /\ merged # {} =>
          panorama.shape =
              warpLog[CHOOSE n \in merged : \A k \in merged : k <= n].shape
    /\ merged = {} => panorama = NoPanorama

\* a finished run of three merges whose panorama is wider than image 0
C9_Witness ==
    /\ pc = "done"
    /\ Len(warpLog) = 3
    /\ written = panorama
    /\ panorama.shape[2] > warpLog[2].train_shape[2]
    /\ warpLog[2].train_shape[2] > images[1].shape[2]

====
